---------------------------- MODULE Spec2Model ----------------------------
(***************************************************************************)
(* The SMS PDU codec of backend/mikrotik/sms_handler.py as a state machine. *)
(*                                                                         *)
(* A Python str is a sequence of Unicode code points (integers); a hex     *)
(* string is such a sequence over "0".."9", "A".."F".  A dict with fixed   *)
(* keys and a dataclass instance are records.  A function that can raise   *)
(* is modelled by an operator that returns the value the enclosing         *)
(* try/except produces.  datetime.now() reads the variable clock.          *)
(***************************************************************************)
EXTENDS Integers, Sequences, FiniteSets, TLC

VARIABLES
    clock,      \* the wall clock datetime.now() reads, in seconds
    pduSpec,    \* how the PDU under decode was put together (ghost)
    pdu,        \* the PDU string handed to decode_sms_deliver_pdu
    first,      \* result of the first decode_sms_deliver_pdu(pdu) call
    second,     \* result of the second decode_sms_deliver_pdu(pdu) call
    respSpec,   \* how the AT response was put together (ghost)
    response,   \* the AT+CMGL / AT+CMGR response, as its lines
    listed,     \* result of parse_cmgl_response(response)
    read,       \* result of parse_cmgr_response(response)
    udhSpec,    \* how the user data header was put together (ghost)
    ud_hex,     \* the user data handed to parse_udh
    udh,        \* result of parse_udh(ud_hex)
    messages,   \* the list handed to reassemble_concatenated, after the call
    batch,      \* the list as the caller built it (ghost)
    groups,     \* the groups dict of the latest reassemble_concatenated call
    out,        \* result of reassemble_concatenated(messages)
    pending,    \* keys the previous call reported incomplete (ghost)
    call,       \* the codec primitive under call and its arguments
    ret,        \* what the primitive returned
    again,      \* what swap_nibbles returned for its own result
    inbox,      \* the slots of the modem's store that hold a message
    db,         \* the rows of the messages table, committed
    pc,         \* where each sync_inbox call stands
    sms_list,   \* sms_list of each sync_inbox call
    existing_indices,   \* existing_indices of each sync_inbox call
    new_count,  \* new_count of each sync_inbox call
    synced,     \* the inbox the latest committed sync had fetched (ghost)
    before      \* synced as it was when each call fetched (ghost)

vars == <<clock, pduSpec, pdu, first, second, respSpec, response, listed,
          read, udhSpec, ud_hex, udh, messages, batch, groups, out, pending,
          call, ret, again, inbox, db, pc, sms_list, existing_indices,
          new_count, synced, before>>

pduVars == <<pduSpec, pdu, first, second>>
respVars == <<respSpec, response, listed, read>>
udhVars == <<udhSpec, ud_hex, udh>>
reasmVars == <<messages, batch, groups, out, pending>>
codecVars == <<call, ret, again>>
syncVars == <<inbox, db, pc, sms_list, existing_indices, new_count, synced,
              before>>

---------------------------------------------------------------------------
(* Python str and int primitives                                           *)

Min(a, b) == IF a < b THEN a ELSE b

Max(a, b) == IF a > b THEN a ELSE b

\* s[a:b] for 0 <= a, 0 <= b: out-of-range bounds are clamped, never an error
Slice(s, a, b) ==
    IF a >= Min(b, Len(s)) THEN << >> ELSE SubSeq(s, a + 1, Min(b, Len(s)))

\* s[a:]
SliceFrom(s, a) == Slice(s, a, Len(s))

RECURSIVE Concat(_)
\* "".join(parts)
Concat(parts) ==
    IF parts = << >> THEN << >> ELSE Head(parts) \o Concat(Tail(parts))

\* "0".."9"
IsDigitCh(c) == c \in 48..57

\* a hex digit: "0".."9", "A".."F", "a".."f"
IsHexCh(c) == IsDigitCh(c) \/ c \in 65..70 \/ c \in 97..102

HexVal(c) ==
    IF IsDigitCh(c) THEN c - 48
    ELSE IF c >= 97 THEN c - 97 + 10
    ELSE c - 65 + 10

\* what int() and bytes.fromhex() raise on a string they cannot read; every
\* value they return here is >= 0
ValueError == -1

RECURSIVE DigitsValue(_, _, _)
DigitsValue(s, base, acc) ==
    IF s = << >> THEN acc
    ELSE DigitsValue(Tail(s), base, acc * base + HexVal(Head(s)))

\* int(s, 16) for s over hex digits and other letters: ValueError on an
\* empty string and on a character that is no hex digit
Int16(s) ==
    IF s = << >> \/ \E i \in 1..Len(s) : ~IsHexCh(s[i]) THEN ValueError
    ELSE DigitsValue(s, 16, 0)

\* int(s), decimal, likewise
Int10(s) ==
    IF s = << >> \/ \E i \in 1..Len(s) : ~IsDigitCh(s[i]) THEN ValueError
    ELSE DigitsValue(s, 10, 0)

RECURSIVE Dec(_)
\* str(n) for n >= 0
Dec(n) == IF n < 10 THEN <<48 + n>> ELSE Dec(n \div 10) \o <<48 + (n % 10)>>

RECURSIVE ZeroPad(_, _)
ZeroPad(s, width) == IF Len(s) >= width THEN s ELSE ZeroPad(<<48>> \o s, width)

\* f"{n:0<width>d}" for n >= 0
FmtD(n, width) == ZeroPad(Dec(n), width)

\* s.upper() on ASCII
Upper(s) ==
    [i \in 1..Len(s) |-> IF s[i] \in 97..122 THEN s[i] - 32 ELSE s[i]]

\* s.replace(c, "") for a one-character c
Remove(s, c) == SelectSeq(s, LAMBDA x : x # c)

\* ASCII whitespace, what str.strip() removes
IsSpaceCh(c) == c \in {32, 9, 10, 11, 12, 13}

RECURSIVE LStrip(_)
LStrip(s) ==
    IF s # << >> /\ IsSpaceCh(Head(s)) THEN LStrip(Tail(s)) ELSE s

RECURSIVE RStrip(_)
RStrip(s) ==
    IF s # << >> /\ IsSpaceCh(s[Len(s)]) THEN RStrip(SubSeq(s, 1, Len(s) - 1))
    ELSE s

\* s.strip()
Strip(s) == RStrip(LStrip(s))

\* s.startswith(p)
StartsWith(s, p) == Len(s) >= Len(p) /\ SubSeq(s, 1, Len(p)) = p

RECURSIVE BitAnd(_, _)
\* a & b for a, b >= 0
BitAnd(a, b) ==
    IF a = 0 \/ b = 0 THEN 0
    ELSE (a % 2) * (b % 2) + 2 * BitAnd(a \div 2, b \div 2)

RECURSIVE BitOr(_, _)
\* a | b for a, b >= 0
BitOr(a, b) ==
    IF a = 0 THEN b
    ELSE IF b = 0 THEN a
    ELSE Max(a % 2, b % 2) + 2 * BitOr(a \div 2, b \div 2)

\* a << n and a >> n for a >= 0, n >= 0
ShiftLeft(a, n) == a * 2 ^ n

ShiftRight(a, n) == a \div 2 ^ n

---------------------------------------------------------------------------
(* sms_handler.py: the primitives                                          *)

\* sanitize_unicode: drop the surrogates U+D800..U+DFFF
sanitize_unicode(text) ==
    IF text = << >> THEN << >>
    ELSE SelectSeq(text, LAMBDA c : ~(c >= 55296 /\ c <= 57343))

\* a slip: the byte-order mark let through
KeepCode_BomKept(code) == code > 0 /\ ~(code >= 55296 /\ code <= 57343)

\* if code > 0 and code != 0xFEFF and not (0xD800 <= code <= 0xDFFF)
KeepCode(code) ==
    code > 0 /\ code # 65279 /\ ~(code >= 55296 /\ code <= 57343)

RECURSIVE Ucs2Loop(_, _, _)
\* the for loop of decode_ucs2_hex from offset i on, chars collected so far
Ucs2Loop(hex_string, i, chars) ==
    IF i >= Len(hex_string) THEN chars
    ELSE IF i + 4 <= Len(hex_string)
    THEN LET code == Int16(Slice(hex_string, i, i + 4)) IN
         IF code # ValueError /\ KeepCode(code)
         THEN Ucs2Loop(hex_string, i + 4, Append(chars, code))
         ELSE Ucs2Loop(hex_string, i + 4, chars)
    ELSE Ucs2Loop(hex_string, i + 4, chars)

decode_ucs2_hex(hex_string) ==
    IF hex_string = << >> THEN << >>
    ELSE Ucs2Loop(Remove(Remove(hex_string, 32), 10), 0, << >>)

RECURSIVE SwapLoop(_, _)
\* the for loop of swap_nibbles from offset i on
SwapLoop(s, i) ==
    IF i >= Len(s) THEN << >>
    ELSE IF i + 1 < Len(s) THEN <<s[i + 2], s[i + 1]>> \o SwapLoop(s, i + 2)
    ELSE <<s[i + 1]>> \o SwapLoop(s, i + 2)

\* a slip: the fill nibble left in
swap_nibbles_FillKept(s) == SwapLoop(s, 0)

\* swap_nibbles: swap each pair, then drop every "F"
swap_nibbles(s) == Remove(SwapLoop(s, 0), 70)

gsm7_alphabet ==
    <<64, 163, 36, 165, 232, 233, 249, 236, 242, 199, 10, 216, 248, 13, 197,
      229, 916, 95, 934, 915, 923, 937, 928, 936, 931, 920, 926, 32, 198, 230,
      223, 201, 32, 33, 34, 35, 164, 37, 38, 39, 40, 41, 42, 43, 44, 45, 46,
      47, 48, 49, 50, 51, 52, 53, 54, 55, 56, 57, 58, 59, 60, 61, 62, 63, 161,
      65, 66, 67, 68, 69, 70, 71, 72, 73, 74, 75, 76, 77, 78, 79, 80, 81, 82,
      83, 84, 85, 86, 87, 88, 89, 90, 196, 214, 209, 220, 167, 191, 97, 98,
      99, 100, 101, 102, 103, 104, 105, 106, 107, 108, 109, 110, 111, 112,
      113, 114, 115, 116, 117, 118, 119, 120, 121, 122, 228, 246, 241, 252,
      224>>

\* bytes.fromhex(s) succeeds: pairs of hex digits (the strings here hold no
\* whitespace, which it would skip)
FromHexOk(s) == Len(s) % 2 = 0 /\ \A i \in 1..Len(s) : IsHexCh(s[i])

\* bytes.fromhex(s)
FromHex(s) == [k \in 1..(Len(s) \div 2) |-> Int16(SubSeq(s, 2 * k - 1, 2 * k))]

\* gsm7_alphabet[char] if char < len(gsm7_alphabet) else chr(char)
Gsm7Char(char) ==
    IF char < Len(gsm7_alphabet) THEN gsm7_alphabet[char + 1] ELSE char

RECURSIVE Gsm7Loop(_, _, _, _)
\* the for loop of decode_gsm7_packed over the bytes left
Gsm7Loop(packed, shift, prev, chars) ==
    IF packed = << >> THEN chars
    ELSE LET byte == Head(packed)
             char == BitAnd(BitOr(ShiftLeft(byte, shift), prev), 127)
             chars1 == Append(chars, Gsm7Char(char))
             prev1 == ShiftRight(byte, 7 - shift)
             shift1 == shift + 1
         IN  IF shift1 = 7
             THEN Gsm7Loop(Tail(packed), 0, 0,
                      IF prev1 < Len(gsm7_alphabet)
                      THEN Append(chars1, gsm7_alphabet[BitAnd(prev1, 127) + 1])
                      ELSE chars1)
             ELSE Gsm7Loop(Tail(packed), shift1, prev1, chars1)

\* decode_gsm7_packed: the input itself when it is no hex of whole bytes
decode_gsm7_packed(packed_hex, num_chars) ==
    IF ~FromHexOk(packed_hex) THEN packed_hex
    ELSE LET chars == Gsm7Loop(FromHex(packed_hex), 0, 0, << >>) IN
         IF num_chars > 0 THEN Slice(chars, 0, num_chars) ELSE chars

\* a slip: the half-filled last octet of an odd digit count not counted
ByteLen_Floor(length) == length \div 2

\* byte_len = (length + 1) // 2
ByteLen(length) == (length + 1) \div 2

\* a slip: the "+" put in front of every number
PlusPrefix_Always(type_byte) == <<43>>

\* prefix = "+" if (type_byte & 0x70) == 0x10 else ""
PlusPrefix(type_byte) == IF BitAnd(type_byte, 112) = 16 THEN <<43>> ELSE << >>

\* decode_pdu_phone: err when int() of the type byte raises
decode_pdu_phone(p, length) ==
    LET byte_len == ByteLen(length)
        type_byte == Int16(Slice(p, 0, 2))
        number_hex == Slice(p, 2, 2 + byte_len * 2)
    IN  IF type_byte = ValueError
        THEN [err |-> TRUE, phone |-> << >>, consumed |-> 0]
        ELSE [err |-> FALSE,
              phone |->
                IF BitAnd(type_byte, 112) = 80
                THEN decode_gsm7_packed(number_hex, length)
                ELSE PlusPrefix(type_byte) \o swap_nibbles(number_hex),
              consumed |-> 2 + byte_len * 2]

\* datetime.now().isoformat() at a clock reading of t seconds past
\* 2026-11-02T00:00:00
isoformat(t) ==
    <<50, 48, 50, 54, 45, 49, 49, 45, 48, 50, 84>>
    \o FmtD((t \div 3600) % 24, 2) \o <<58>> \o FmtD((t \div 60) % 60, 2)
    \o <<58>> \o FmtD(t % 60, 2)

\* decode_pdu_timestamp, called when the clock reads now
decode_pdu_timestamp(ts_hex, now) ==
    LET swapped == swap_nibbles(Slice(ts_hex, 0, 14))
        year == Int10(Slice(swapped, 0, 2))
        month == Int10(Slice(swapped, 2, 4))
        day == Int10(Slice(swapped, 4, 6))
        hour == Int10(Slice(swapped, 6, 8))
        minute == Int10(Slice(swapped, 8, 10))
        sec == Int10(Slice(swapped, 10, 12))
        full_year == IF year < 80 THEN 2000 + year ELSE 1900 + year
    IN  IF ValueError \in {year, month, day, hour, minute, sec}
        THEN isoformat(now)
        ELSE FmtD(full_year, 4) \o <<45>> \o FmtD(month, 2) \o <<45>>
             \o FmtD(day, 2) \o <<84>> \o FmtD(hour, 2) \o <<58>>
             \o FmtD(minute, 2) \o <<58>> \o FmtD(sec, 2)

\* the info dict parse_udh starts from
DefaultInfo == [concat_ref |-> 0, concat_total |-> 1, concat_seq |-> 1]

\* except Exception: return info, 0
UdhFail(info) == [info |-> info, len |-> 0]

\* header_hex_len = 2 + udhl * 2
HeaderHexLen(udhl) == 2 + udhl * 2

\* a slip: the element's length taken in hex characters, not octets
NextPos_Undoubled(pos, iedl) == pos + 4 + iedl

\* pos += 4 + iedl * 2
NextPos(pos, iedl) == pos + 4 + iedl * 2

\* the three assignments of a concatenation element, in order, each of which
\* may raise after the ones before it took effect; refLen is the hex length
\* of the reference (2 or 4)
ConcatIE(info, ied, refLen) ==
    LET ref == Int16(Slice(ied, 0, refLen))
        total == Int16(Slice(ied, refLen, refLen + 2))
        seq == Int16(Slice(ied, refLen + 2, refLen + 4))
        info1 == [info EXCEPT !.concat_ref = ref]
        info2 == [info1 EXCEPT !.concat_total = total]
        info3 == [info2 EXCEPT !.concat_seq = seq]
    IN  IF ref = ValueError THEN [err |-> TRUE, info |-> info]
        ELSE IF total = ValueError THEN [err |-> TRUE, info |-> info1]
        ELSE IF seq = ValueError THEN [err |-> TRUE, info |-> info2]
        ELSE [err |-> FALSE, info |-> info3]

RECURSIVE UdhLoop(_, _, _, _)
\* the while loop of parse_udh
UdhLoop(ud, pos, header_hex_len, info) ==
    IF ~(pos < header_hex_len) THEN [info |-> info, len |-> header_hex_len]
    ELSE LET iei == Int16(Slice(ud, pos, pos + 2))
             iedl == Int16(Slice(ud, pos + 2, pos + 4))
             ied == Slice(ud, pos + 4, pos + 4 + iedl * 2)
         IN  IF iei = ValueError \/ iedl = ValueError THEN UdhFail(info)
             ELSE IF iei = 0 /\ iedl = 3
             THEN LET r == ConcatIE(info, ied, 2) IN
                  IF r.err THEN UdhFail(r.info)
                  ELSE UdhLoop(ud, NextPos(pos, iedl), header_hex_len, r.info)
             ELSE IF iei = 8 /\ iedl = 4
             THEN LET r == ConcatIE(info, ied, 4) IN
                  IF r.err THEN UdhFail(r.info)
                  ELSE UdhLoop(ud, NextPos(pos, iedl), header_hex_len, r.info)
             ELSE UdhLoop(ud, NextPos(pos, iedl), header_hex_len, info)

\* parse_udh: (info, header length in hex characters)
parse_udh(ud) ==
    LET udhl == Int16(Slice(ud, 0, 2)) IN
    IF udhl = ValueError THEN UdhFail(DefaultInfo)
    ELSE UdhLoop(ud, 2, HeaderHexLen(udhl), DefaultInfo)

---------------------------------------------------------------------------
(* sms_handler.py: the PDU decoder                                         *)

\* what decode_sms_deliver_pdu returns from its except clause
None == [none |-> TRUE]

DecodedSMS(index, phone, timestamp, body, encoding, info) ==
    [none |-> FALSE, index |-> index, phone |-> phone,
     timestamp |-> timestamp, body |-> body, encoding |-> encoding,
     concat_ref |-> info.concat_ref, concat_total |-> info.concat_total,
     concat_seq |-> info.concat_seq]

\* a slip: the alphabet bits read without a look at the coding group
IsUcs2_AlphabetOnly(dcs) == BitAnd(ShiftRight(dcs, 2), 3) = 2

\* is_ucs2 from the data coding scheme byte
IsUcs2(dcs) ==
    IF BitAnd(dcs, 192) = 0 THEN BitAnd(ShiftRight(dcs, 2), 3) = 2
    ELSE BitAnd(dcs, 240) = 224

\* the septets a header of udh_len hex characters takes, fill bits included
UdhSeptets(udh_len) ==
    LET udh_bytes == udh_len \div 2
        fill_bits == (7 - ((udh_bytes * 8) % 7)) % 7
    IN  (udh_bytes * 8 + fill_bits) \div 7

\* the user data part of decode_sms_deliver_pdu: UDH handling and the body
DecodeUserData(has_udh, is_ucs2, udl0, ud0, phone, timestamp) ==
    LET hdr == IF has_udh THEN parse_udh(ud0) ELSE [info |-> DefaultInfo, len |-> 0]
        ud == IF has_udh THEN SliceFrom(ud0, hdr.len) ELSE ud0
        udl == IF ~has_udh THEN udl0
               ELSE IF is_ucs2 THEN udl0 - hdr.len \div 2
               ELSE udl0 - UdhSeptets(hdr.len)
        body == IF is_ucs2 THEN decode_ucs2_hex(ud)
                ELSE decode_gsm7_packed(ud, IF udl > 0 THEN udl ELSE 0)
    IN  DecodedSMS(0, phone, timestamp, sanitize_unicode(body),
                   IF is_ucs2 THEN "ucs2" ELSE "gsm7", hdr.info)

\* decode_sms_deliver_pdu, called when the clock reads now
decode_sms_deliver_pdu(raw, now) ==
    LET p == Remove(Upper(raw), 32)
        sca_len == Int16(Slice(p, 0, 2))
        pos1 == 2 + sca_len * 2
        pdu_type == Int16(Slice(p, pos1, pos1 + 2))
        has_udh == BitAnd(pdu_type, 64) # 0
        pos2 == pos1 + 2
        oa_len == Int16(Slice(p, pos2, pos2 + 2))
        pos3 == pos2 + 2
        oa == decode_pdu_phone(SliceFrom(p, pos3), oa_len)
        pos4 == pos3 + oa.consumed + 2
        dcs == Int16(Slice(p, pos4, pos4 + 2))
        pos5 == pos4 + 2
        timestamp == decode_pdu_timestamp(Slice(p, pos5, pos5 + 14), now)
        pos6 == pos5 + 14
        udl == Int16(Slice(p, pos6, pos6 + 2))
        pos7 == pos6 + 2
    IN  IF sca_len = ValueError THEN None
        ELSE IF pdu_type = ValueError THEN None
        ELSE IF oa_len = ValueError THEN None
        ELSE IF oa.err THEN None
        ELSE IF dcs = ValueError THEN None
        ELSE IF udl = ValueError THEN None
        ELSE DecodeUserData(has_udh, IsUcs2(dcs), udl, SliceFrom(p, pos7),
                            oa.phone, timestamp)

---------------------------------------------------------------------------
(* sms_handler.py: the reassembler                                         *)

\* a slip: the dict kept from call to call (a module-level or default-argument
\* dict)
GroupsAtEntry_Kept(left) == left

\* groups = {} on entry, whatever an earlier call left behind
GroupsAtEntry(left) == << >>

\* position of key among the groups (a dict, in insertion order); 0 when absent
RECURSIVE KeyPos(_, _, _)
KeyPos(gs, key, i) ==
    IF i > Len(gs) THEN 0
    ELSE IF gs[i].key = key THEN i
    ELSE KeyPos(gs, key, i + 1)

\* a slip: the messages of a sender all in one group
GroupKey_PhoneOnly(msg) == <<msg.phone, 0>>

\* key = (msg.phone, msg.concat_ref)
GroupKey(msg) == <<msg.phone, msg.concat_ref>>

\* groups[key].append(msg), after groups[key] = [] for a new key
GroupAdd(gs, msg) ==
    LET key == GroupKey(msg)
        at == KeyPos(gs, key, 1)
    IN  IF at = 0 THEN Append(gs, [key |-> key, parts |-> <<msg>>])
        ELSE [gs EXCEPT ![at].parts = Append(@, msg)]

\* a slip: every message that carries a reference is taken for a part
IsFragment_ByRef(msg) == msg.concat_ref > 0

\* if msg.concat_total > 1
IsFragment(msg) == msg.concat_total > 1

RECURSIVE Partition(_, _, _)
\* the first for loop of reassemble_concatenated over the messages left
Partition(msgs, gs, singles) ==
    IF msgs = << >> THEN [groups |-> gs, single_messages |-> singles]
    ELSE LET msg == Head(msgs) IN
         IF IsFragment(msg)
         THEN Partition(Tail(msgs), GroupAdd(gs, msg), singles)
         ELSE Partition(Tail(msgs), gs, Append(singles, msg))

RECURSIVE InsertBySeq(_, _)
\* msg put behind every part whose concat_seq is not greater (a stable sort)
InsertBySeq(sorted, msg) ==
    IF sorted = << >> THEN <<msg>>
    ELSE IF Head(sorted).concat_seq <= msg.concat_seq
    THEN <<Head(sorted)>> \o InsertBySeq(Tail(sorted), msg)
    ELSE <<msg>> \o sorted

RECURSIVE SortLoop(_, _)
SortLoop(parts, sorted) ==
    IF parts = << >> THEN sorted
    ELSE SortLoop(Tail(parts), InsertBySeq(sorted, Head(parts)))

\* a slip: the parts left in the order they were listed
SortParts_Unsorted(parts) == parts

\* parts.sort(key=lambda x: x.concat_seq)
SortParts(parts) == SortLoop(parts, << >>)

\* "\n\n[<warning sign> Message incomplete: "
MarkerHead ==
    <<10, 10, 91, 9888, 65039, 32, 77, 101, 115, 115, 97, 103, 101, 32, 105,
      110, 99, 111, 109, 112, 108, 101, 116, 101, 58, 32>>

\* " parts received]"
MarkerTail ==
    <<32, 112, 97, 114, 116, 115, 32, 114, 101, 99, 101, 105, 118, 101, 100, 93>>

\* the f-string appended to an incomplete group's body
IncompleteMarker(n, expected_total) ==
    MarkerHead \o Dec(n) \o <<47>> \o Dec(expected_total) \o MarkerTail

\* a slip: one part fewer is let through
IsIncomplete_OffByOne(n, expected_total) == n < expected_total - 1

\* if len(parts) < expected_total
IsIncomplete(n, expected_total) == n < expected_total

\* the body of the second for loop: one group's record from its sorted parts
Reassembled(parts) ==
    LET combined_body == Concat([i \in 1..Len(parts) |-> parts[i].body])
        expected_total == parts[1].concat_total
        fst == parts[1]
    IN  DecodedSMS(fst.index, fst.phone, fst.timestamp,
                   IF IsIncomplete(Len(parts), expected_total)
                   THEN combined_body \o IncompleteMarker(Len(parts), expected_total)
                   ELSE combined_body,
                   fst.encoding,
                   [concat_ref |-> 0, concat_total |-> 1, concat_seq |-> 1])

\* reassemble_concatenated run on msgs with the groups dict left by earlier
\* calls: the groups dict it ends with (each list sorted), the list it was
\* given as the call leaves it (only the lists inside groups are sorted in
\* place) and what it returns
ReassembleCall(msgs, left) ==
    LET parted == Partition(msgs, GroupsAtEntry(left), << >>)
        sorted == [g \in 1..Len(parted.groups) |->
                     [parted.groups[g] EXCEPT !.parts = SortParts(@)]]
    IN  [groups |-> sorted,
         messages |-> msgs,
         out |-> parted.single_messages
                 \o [g \in 1..Len(sorted) |-> Reassembled(sorted[g].parts)]]

reassemble_concatenated(msgs) == ReassembleCall(msgs, << >>).out

---------------------------------------------------------------------------
(* sms_handler.py: the response parsers                                    *)

\* 1-based position of the first sep in s; 0 when there is none
FirstSep(s, sep) ==
    IF \E i \in 1..Len(s) : s[i] = sep
    THEN CHOOSE i \in 1..Len(s) : s[i] = sep /\ \A j \in 1..(i - 1) : s[j] # sep
    ELSE 0

RECURSIVE Split(_, _)
\* s.split(sep) for a one-character sep
Split(s, sep) ==
    LET at == FirstSep(s, sep) IN
    IF at = 0 THEN <<s>>
    ELSE <<SubSeq(s, 1, at - 1)>> \o Split(SubSeq(s, at + 1, Len(s)), sep)

\* response.strip().split("\n")
ResponseLines(resp) == Split(Strip(resp), 10)

RECURSIVE SkipSpaces(_, _)
\* where \s* ends when it starts at offset i of s
SkipSpaces(s, i) ==
    IF i < Len(s) /\ IsSpaceCh(s[i + 1]) THEN SkipSpaces(s, i + 1) ELSE i

RECURSIVE SkipDigits(_, _)
\* where \d* ends when it starts at offset i of s
SkipDigits(s, i) ==
    IF i < Len(s) /\ IsDigitCh(s[i + 1]) THEN SkipDigits(s, i + 1) ELSE i

\* s[i] == c, false past the end
CharAt(s, i, c) == i < Len(s) /\ s[i + 1] = c

\* "+CMGL:", "+CMGR:", "OK"
CmglMarker == <<43, 67, 77, 71, 76, 58>>

CmgrMarker == <<43, 67, 77, 71, 82, 58>>

OkToken == <<79, 75>>

\* what MatchCmgl gives for a line the pattern does not match
NoMatch == -1

\* re.match(r'\+CMGL:\s*(\d+),\s*(\d+),.*?,\s*(\d+)', line): int(group(1)),
\* or NoMatch
MatchCmgl(line) ==
    LET a1 == SkipSpaces(line, Len(CmglMarker))
        a2 == SkipDigits(line, a1)
        b1 == SkipSpaces(line, a2 + 1)
        b2 == SkipDigits(line, b1)
    IN  IF /\ StartsWith(line, CmglMarker)
           /\ a2 > a1 /\ CharAt(line, a2, 44)
           /\ b2 > b1 /\ CharAt(line, b2, 44)
           /\ \E j \in (b2 + 1)..(Len(line) - 1) :
                 /\ CharAt(line, j, 44)
                 /\ LET c == SkipSpaces(line, j + 1) IN
                    c < Len(line) /\ IsDigitCh(line[c + 1])
        THEN Int10(Slice(line, a1, a2))
        ELSE NoMatch

\* a slip: the line behind a marker is passed over whatever it is
AfterMarker_Consumed(i) == i + 2

\* the line the loop goes on with after a marker whose next line is no PDU:
\* the next line itself (only i += 1 at the end of the loop body runs)
AfterMarker(i) == i + 1

RECURSIVE CmglLoop(_, _, _, _)
\* the while loop of parse_cmgl_response from line i on (0-based)
CmglLoop(lines, i, msgs, now) ==
    IF ~(i < Len(lines)) THEN msgs
    ELSE LET line == Strip(lines[i + 1])
             index == MatchCmgl(line)
             pdu_line == Strip(lines[i + 2])
             decoded == decode_sms_deliver_pdu(pdu_line, now)
         IN  IF StartsWith(line, CmglMarker) /\ index # NoMatch
                /\ i + 1 < Len(lines)
             THEN IF pdu_line # << >> /\ ~StartsWith(pdu_line, <<43>>)
                     /\ pdu_line # OkToken
                  THEN CmglLoop(lines, i + 2,
                           IF decoded # None
                           THEN Append(msgs, [decoded EXCEPT !.index = index])
                           ELSE msgs,
                           now)
                  ELSE CmglLoop(lines, AfterMarker(i), msgs, now)
             ELSE CmglLoop(lines, i + 1, msgs, now)

\* parse_cmgl_response, called when the clock reads now
parse_cmgl_response(resp, now) ==
    reassemble_concatenated(CmglLoop(ResponseLines(resp), 0, << >>, now))

RECURSIVE CmgrLoop(_, _, _)
\* the for loop of parse_cmgr_response from line i on (0-based)
CmgrLoop(lines, i, now) ==
    IF ~(i < Len(lines)) THEN None
    ELSE LET line == Strip(lines[i + 1])
             pdu_line == Strip(lines[i + 2])
         IN  IF StartsWith(line, CmgrMarker) /\ i + 1 < Len(lines)
                /\ pdu_line # << >> /\ pdu_line # OkToken
             THEN decode_sms_deliver_pdu(pdu_line, now)
             ELSE CmgrLoop(lines, i + 1, now)

\* parse_cmgr_response, called when the clock reads now
parse_cmgr_response(resp, now) == CmgrLoop(ResponseLines(resp), 0, now)

---------------------------------------------------------------------------
(* The inputs: SMS-DELIVER PDUs as a modem writes them (3GPP TS 23.040),   *)
(* and what can go wrong with one on the way                               *)

\* the hex digit character of a value 0..15, upper case as modems write it
HexCh(v) == IF v < 10 THEN 48 + v ELSE 65 + (v - 10)

\* the hex string of a sequence of octets
HexOfBytes(bytes) ==
    [i \in 1..(2 * Len(bytes)) |->
        IF i % 2 = 1 THEN HexCh(bytes[(i + 1) \div 2] \div 16)
        ELSE HexCh(bytes[i \div 2] % 16)]

\* bit b of the stream that packs the septets behind fill fill bits
StreamBit(septets, fill, b) ==
    IF b < fill \/ (b - fill) \div 7 >= Len(septets) THEN 0
    ELSE (septets[(b - fill) \div 7 + 1] \div 2 ^ ((b - fill) % 7)) % 2

\* the octets of septets packed least significant bit first behind fill bits
Pack7(septets, fill) ==
    [j \in 1..((fill + 7 * Len(septets) + 7) \div 8) |->
        StreamBit(septets, fill, 8 * (j - 1)) + 2 * StreamBit(septets, fill, 8 * (j - 1) + 1)
        + 4 * StreamBit(septets, fill, 8 * (j - 1) + 2) + 8 * StreamBit(septets, fill, 8 * (j - 1) + 3)
        + 16 * StreamBit(septets, fill, 8 * (j - 1) + 4) + 32 * StreamBit(septets, fill, 8 * (j - 1) + 5)
        + 64 * StreamBit(septets, fill, 8 * (j - 1) + 6) + 128 * StreamBit(septets, fill, 8 * (j - 1) + 7)]

\* the octets of UCS-2 code units, big endian
PackUcs2(units) ==
    [i \in 1..(2 * Len(units)) |->
        IF i % 2 = 1 THEN units[(i + 1) \div 2] \div 256 ELSE units[i \div 2] % 256]

\* service centre addresses: none; +316 (length 3: type and two octets)
ScaChoices == {<<0>>, <<3, 145, 19, 246>>}

\* originating addresses, digit count first: national 2143658709 (type 0x81:
\* written 12 34 56 78 90 swapped); international 13268807364 (type 0x91,
\* eleven digits and a fill nibble F)
OaNational == <<10, 129, 33, 67, 101, 135, 9>>

OaInternational == <<11, 145, 49, 98, 136, 112, 99, 244>>

OaChoices == {OaNational, OaInternational}

\* the service centre time stamp 26-11-02 17:15:28 +00, semi-octets swapped
SctsGood == <<98, 17, 32, 113, 81, 130, 0>>

\* the 8-bit-reference concatenation header 05 00 03 ref total seq
ConcatUdh(ref, total, seq) == <<5, 0, 3, ref, total, seq>>

\* texts, as GSM default alphabet septets and as UCS-2 code units alike:
\* "A", "Hi", "Hello!!" (seven characters: one whole group of seven octets)
TextChoices == {<<65>>, <<72, 105>>, <<72, 101, 108, 108, 111, 33, 33>>}

\* the fill bits behind a header of n octets that put the text on a septet
\* boundary
FillBits(n) == (7 - ((8 * n) % 7)) % 7

\* user data length and user data of a message: header, fill bits, text
UserData(ucs2, header, text) ==
    LET n == Len(header) IN
    IF ucs2 THEN <<n + 2 * Len(text)>> \o header \o PackUcs2(text)
    ELSE <<(8 * n + FillBits(n)) \div 7 + Len(text)>> \o header
         \o Pack7(text, FillBits(n))

\* the octets of the PDU that s describes, before anything goes wrong
PduBytes(s) ==
    s.sca \o <<IF s.udh # << >> THEN 68 ELSE 4>> \o s.oa
    \o <<0, IF s.ucs2 THEN 8 ELSE 0>> \o s.scts
    \o UserData(s.ucs2, s.udh, s.text)

\* the PDU line that s describes: whole, cut after s.at characters, with
\* the character at s.at replaced by "Z", with the two octets 00 42 behind
\* the declared user data ("extra"), or with s.at as its coding scheme
\* octet ("dcs")
BuildPdu(s) ==
    LET whole == HexOfBytes(PduBytes(s))
        dcsAt == 2 * (Len(s.sca) + 1 + Len(s.oa) + 1)
    IN  IF s.mut = "cut" THEN SubSeq(whole, 1, s.at)
        ELSE IF s.mut = "bad" THEN [whole EXCEPT ![s.at] = 90]
        ELSE IF s.mut = "extra" THEN whole \o <<48, 48, 52, 50>>
        ELSE IF s.mut = "dcs"
        THEN SubSeq(whole, 1, dcsAt) \o HexOfBytes(<<s.at>>)
             \o SubSeq(whole, dcsAt + 3, Len(whole))
        ELSE whole

\* the well-formed messages decoded one at a time
WholePdus ==
    [sca : ScaChoices, oa : OaChoices, ucs2 : BOOLEAN, scts : {SctsGood},
     udh : {<< >>, ConcatUdh(170, 2, 1)}, text : TextChoices,
     mut : {"none"}, at : {0}]

\* a well-formed message and everything one cut or one bad character makes
\* of it
Damaged(s) ==
    LET n == 2 * Len(PduBytes(s)) IN
    {s} \cup {[s EXCEPT !.mut = "cut", !.at = k] : k \in 0..(n - 1)}
        \cup {[s EXCEPT !.mut = "bad", !.at = k] : k \in 1..n}

\* further originating addresses: national 123 (odd digit count, fill
\* nibble), international 1234 (even), alphanumeric "Hi" (four semi-octets)
\* and "Hello" (nine semi-octets, the last one half of an octet)
OaMore ==
    {<<3, 129, 33, 243>>, <<4, 145, 33, 67>>, <<4, 208>> \o Pack7(<<72, 105>>, 0),
     <<9, 208>> \o Pack7(<<72, 101, 108, 108, 111>>, 0)}

\* well-formed messages from these addresses
MoreAddresses ==
    [sca : ScaChoices, oa : OaMore, ucs2 : BOOLEAN, scts : {SctsGood},
     udh : {<< >>}, text : {<<72, 105>>}, mut : {"none"}, at : {0}]

\* messages with two octets more than they declare behind the user data
Trailing ==
    [sca : {<<0>>}, oa : {OaNational}, ucs2 : BOOLEAN, scts : {SctsGood},
     udh : {<< >>, ConcatUdh(170, 2, 1)}, text : {<<65>>, <<72, 105>>},
     mut : {"extra"}, at : {0}]

\* the message "Hi", packed as GSM7 or as UCS-2, under every value of the
\* coding scheme octet
DcsPdus ==
    [sca : {<<0>>}, oa : {OaNational}, ucs2 : BOOLEAN, scts : {SctsGood},
     udh : {<< >>}, text : {<<72, 105>>}, mut : {"dcs"}, at : 0..255]

PduChoices ==
    UNION {Damaged(s) : s \in WholePdus} \cup MoreAddresses \cup Trailing
    \cup DcsPdus

\* offsets (0-based, in hex characters) at which the fields of s start
ScaEnd(s) == 2 * Len(s.sca)

OaStart(s) == ScaEnd(s) + 2

PidStart(s) == OaStart(s) + 2 * Len(s.oa)

SctsStart(s) == PidStart(s) + 4

UdlStart(s) == SctsStart(s) + 14

UdStart(s) == UdlStart(s) + 2

PduLen(s) == 2 * Len(PduBytes(s))

---------------------------------------------------------------------------
(* The state machine of one decode_sms_deliver_pdu caller                  *)

\* how long the clock is followed
MaxClock == 1

NotCalled == [called |-> FALSE]

Called(v) == [called |-> TRUE, value |-> v]

\* a variable no operation of the specification at hand touches
Idle == [idle |-> TRUE]

\* the variables of the codec primitives' callers, untouched
CodecIdle == call = Idle /\ ret = Idle /\ again = Idle

\* the variables of the inbox synchronisation, untouched
SyncIdle ==
    /\ inbox = Idle /\ db = Idle /\ pc = Idle /\ sms_list = Idle
    /\ existing_indices = Idle /\ new_count = Idle /\ synced = Idle
    /\ before = Idle

Tick ==
    /\ clock < MaxClock
    /\ clock' = clock + 1
    /\ UNCHANGED <<pduVars, respVars, udhVars, reasmVars,
                 codecVars, syncVars>>

DecodeFirst ==
    /\ first = NotCalled
    /\ first' = Called(decode_sms_deliver_pdu(pdu, clock))
    /\ UNCHANGED <<clock, pduSpec, pdu, second, respVars, udhVars, reasmVars,
                 codecVars, syncVars>>

DecodeSecond ==
    /\ first # NotCalled
    /\ second = NotCalled
    /\ second' = Called(decode_sms_deliver_pdu(pdu, clock))
    /\ UNCHANGED <<clock, pduSpec, pdu, first, respVars, udhVars, reasmVars,
                 codecVars, syncVars>>

InitPdu ==
    /\ clock = 0
    /\ pduSpec \in PduChoices
    /\ pdu = BuildPdu(pduSpec)
    /\ first = NotCalled
    /\ second = NotCalled
    /\ respSpec = Idle /\ response = Idle /\ listed = Idle /\ read = Idle
    /\ udhSpec = Idle /\ ud_hex = Idle /\ udh = Idle
    /\ messages = Idle /\ batch = Idle /\ groups = Idle /\ out = Idle
    /\ pending = Idle
    /\ CodecIdle /\ SyncIdle

NextPdu == DecodeFirst \/ DecodeSecond \/ Tick

SpecPdu == InitPdu /\ [][NextPdu]_vars

---------------------------------------------------------------------------
(* The state machine of one AT+CMGL / AT+CMGR response and its parser      *)

\* "\r\n", the line end modems write
CrLf == <<13, 10>>

\* "+CMGL: <slot>,1,,<length>" and the PDU line behind it
CmglEntry(slot, line) ==
    CmglMarker \o <<32>> \o Dec(slot) \o <<44, 49, 44, 44>>
    \o Dec(Len(line) \div 2) \o CrLf \o line \o CrLf

\* "+CMGR: 1,,<length>" and the PDU line behind it
CmgrEntry(line) ==
    CmgrMarker \o <<32, 49, 44, 44>> \o Dec(Len(line) \div 2) \o CrLf
    \o line \o CrLf

\* the messages in the modem's store: the first one whole
StoredFirst ==
    [sca : {<<0>>}, oa : {OaNational}, ucs2 : BOOLEAN, scts : {SctsGood},
     udh : {<< >>, ConcatUdh(170, 2, 1)}, text : {<<72, 105>>},
     mut : {"none"}, at : {0}]

\* the second one, whole or cut short anywhere, or absent
StoredSecond ==
    LET whole == [sca : {<<0>>}, oa : {OaNational}, ucs2 : BOOLEAN,
                  scts : {SctsGood}, udh : {<< >>, ConcatUdh(170, 2, 2)},
                  text : {<<65>>}, mut : {"none"}, at : {0}]
    IN  UNION {{s} \cup {[s EXCEPT !.mut = "cut", !.at = k] :
                           k \in 0..(PduLen(s) - 1)} : s \in whole}
        \cup {[s EXCEPT !.mut = "absent"] : s \in {CHOOSE w \in whole : TRUE}}

\* what else the response holds: nothing; between the two entries the
\* echoed command ("echo"), a line "+CMGL: x" ("nomatch"), a marker of slot 9
\* and a blank line ("blank") or that marker alone, so that the next marker
\* follows it ("marker"); behind the entries that marker and the terminator
\* ("ok"), or that marker as the last line of a response without terminator
\* ("last")
SkipKinds == {"echo", "nomatch", "blank", "marker", "ok", "last"}

RespChoices ==
    [kind : {"CMGL"}, fst : StoredFirst, snd : StoredSecond, swapped : BOOLEAN,
     skip : {"none"}]
    \cup [kind : {"CMGL"}, fst : StoredFirst,
          snd : {s \in StoredSecond : s.mut \in {"none", "absent"}},
          swapped : BOOLEAN, skip : SkipKinds]
    \cup [kind : {"CMGR"}, fst : StoredFirst,
          snd : {s \in StoredSecond : s.mut = "absent"}, swapped : {FALSE},
          skip : {"none"}]

\* the slot the modem lists the first and the second message under
SlotOfFirst(r) == IF r.swapped THEN 2 ELSE 1

SlotOfSecond(r) == IF r.swapped THEN 1 ELSE 2

\* "+CMGL: 9,1,,2" and its line end: a marker with no PDU line behind it
LoneMarker == CmglMarker \o <<32, 57, 44, 49, 44, 44, 50>> \o CrLf

\* what stands between the two entries of r
Between(r) ==
    CASE r.skip = "echo" -> <<65, 84, 43, 67, 77, 71, 76, 61, 52>> \o CrLf
      [] r.skip = "nomatch" -> CmglMarker \o <<32, 120>> \o CrLf
      [] r.skip = "blank" -> LoneMarker \o CrLf
      [] r.skip = "marker" -> LoneMarker
      [] OTHER -> << >>

\* what stands behind the entries of r
Behind(r) ==
    CASE r.skip = "ok" -> LoneMarker \o OkToken \o CrLf
      [] r.skip = "last" -> LoneMarker
      [] OTHER -> CrLf \o OkToken \o CrLf

\* the response text the modem writes for r
BuildResponse(r) ==
    LET e1 == CmglEntry(SlotOfFirst(r), BuildPdu(r.fst))
        e2 == IF r.snd.mut = "absent" THEN << >>
              ELSE CmglEntry(SlotOfSecond(r), BuildPdu(r.snd))
    IN  IF r.kind = "CMGR" THEN CmgrEntry(BuildPdu(r.fst)) \o CrLf \o OkToken \o CrLf
        ELSE (IF r.swapped THEN e2 \o Between(r) \o e1
              ELSE e1 \o Between(r) \o e2) \o Behind(r)

ParseCmgl ==
    /\ respSpec.kind = "CMGL"
    /\ listed = NotCalled
    /\ listed' = Called(parse_cmgl_response(response, clock))
    /\ UNCHANGED <<clock, respSpec, response, read, pduVars, udhVars, reasmVars,
                 codecVars, syncVars>>

ParseCmgr ==
    /\ respSpec.kind = "CMGR"
    /\ read = NotCalled
    /\ read' = Called(parse_cmgr_response(response, clock))
    /\ UNCHANGED <<clock, respSpec, response, listed, pduVars, udhVars, reasmVars,
                 codecVars, syncVars>>

InitResp ==
    /\ clock = 0
    /\ respSpec \in RespChoices
    /\ response = BuildResponse(respSpec)
    /\ listed = NotCalled
    /\ read = NotCalled
    /\ pduSpec = Idle /\ pdu = Idle /\ first = Idle /\ second = Idle
    /\ udhSpec = Idle /\ ud_hex = Idle /\ udh = Idle
    /\ messages = Idle /\ batch = Idle /\ groups = Idle /\ out = Idle
    /\ pending = Idle
    /\ CodecIdle /\ SyncIdle

NextResp == ParseCmgl \/ ParseCmgr \/ Tick

SpecResp == InitResp /\ [][NextResp]_vars

---------------------------------------------------------------------------
(* Claims on the PDU decoder and the response parsers                      *)

\* the record the decoder gives for the whole message s listed under slot
RecordOf(s, slot, now) ==
    [decode_sms_deliver_pdu(BuildPdu(s), now) EXCEPT !.index = slot]

\* C1: Batch resilience.  A response that lists one well-formed standalone
\* PDU and one PDU cut short, at whatever position, yields exactly one
\* decoded record: that of the well-formed PDU.
C1_BatchResilience ==
    (/\ respSpec.kind = "CMGL"
     /\ listed # NotCalled
     /\ respSpec.fst.udh = << >>
     /\ respSpec.snd.mut = "cut")
    => listed.value = <<RecordOf(respSpec.fst, SlotOfFirst(respSpec), clock)>>

\* s has a character that is no hex digit in a field the decoder parses:
\* the service centre length, the type, the address, the coding scheme, the
\* time stamp, the user data length or the user data
BadInParsedField(s) ==
    /\ s.mut = "bad"
    /\ \/ s.at - 1 < 2
       \/ s.at - 1 >= ScaEnd(s) /\ s.at - 1 < PidStart(s)
       \/ s.at - 1 >= PidStart(s) + 2

\* s ends before the end of the fields it declares
Truncated(s) == s.mut = "cut" /\ s.at < PduLen(s)

\* C2: Failure policy.  decode_sms_deliver_pdu returns None, and no partly
\* decoded record, for every PDU with a non-hex character in a parsed field
\* (time stamp and user data included) and for every PDU that ends before
\* the end of its declared fields.
C2_MalformedDiscarded ==
    (first # NotCalled /\ (BadInParsedField(pduSpec) \/ Truncated(pduSpec)))
    => first.value = None

\* C5: No record with concat_total > 1 is returned by parse_cmgl_response or
\* by parse_cmgr_response.
C5_NoFragmentSurfaced ==
    /\ listed # NotCalled =>
         \A i \in 1..Len(listed.value) : listed.value[i].concat_total <= 1
    /\ (read # NotCalled /\ read.value # None) => read.value.concat_total <= 1

\* C6: UDH stripping.  The body decoded from a GSM7 PDU with the header
\* 05 00 03 ref total seq equals the body decoded from the PDU that carries
\* the same text without a header (no header, no fill bits, the declared
\* length smaller by the header's septets).
C6_UdhStripped ==
    (/\ first # NotCalled
     /\ pduSpec.mut = "none" /\ ~pduSpec.ucs2 /\ pduSpec.udh # << >>)
    => /\ first.value # None
       /\ first.value.body =
            decode_sms_deliver_pdu(BuildPdu([pduSpec EXCEPT !.udh = << >>]),
                                   clock).body

\* C7: Idempotence.  Two calls of decode_sms_deliver_pdu on the same string
\* return the same result in every field.
C7_Idempotent ==
    (first # NotCalled /\ second # NotCalled) => first.value = second.value

---------------------------------------------------------------------------
(* The state machine of one parse_udh caller                               *)

\* how many information elements a header holds at most
MaxElems == 3

\* the information elements, by kind, as the k-th element of a header:
\* "c8" the 8-bit-reference concatenation element 00 03 ref total seq,
\* "c16" the 16-bit-reference one 08 04 ref ref total seq, "u0" and "u2"
\* elements the parser does not know (01 00 and 24 02 11 22), "z" an
\* element 00 of length 2; references and sequence numbers tell positions
\* apart
ElemKinds == {"c8", "c16", "u0", "u2", "z"}

ElemBytes(kind, k) ==
    CASE kind = "c8" -> <<0, 3, 160 + k, 3, k>>
      [] kind = "c16" -> <<8, 4, 1, k, 3, k>>
      [] kind = "u0" -> <<1, 0>>
      [] kind = "u2" -> <<36, 2, 17, 34>>
      [] kind = "z" -> <<0, 2, 170 + k, 3>>

\* the metadata the k-th element carries, when it is of a concatenation kind
ElemInfo(kind, k) ==
    IF kind = "c8"
    THEN [concat_ref |-> 160 + k, concat_total |-> 3, concat_seq |-> k]
    ELSE [concat_ref |-> 256 + k, concat_total |-> 3, concat_seq |-> k]

IsConcatKind(kind) == kind \in {"c8", "c16"}

\* the octets of the elements, without the length octet in front
ElemsBytes(elems) ==
    Concat([k \in 1..Len(elems) |-> ElemBytes(elems[k], k)])

\* UDHL of the header made of elems
Udhl(elems) == Len(ElemsBytes(elems))

\* the length in hex characters of the header made of elems
UdhHexLen(elems) == 2 + 2 * Udhl(elems)

\* offset (0-based, in hex characters) at which the k-th element starts
ElemStart(elems, k) == 2 + 2 * Len(ElemsBytes(SubSeq(elems, 1, k - 1)))

\* the field the hex character at offset o belongs to
FieldAt(elems, o) ==
    IF o < 2 THEN "udhl"
    ELSE IF o >= UdhHexLen(elems) THEN "text"
    ELSE LET k == CHOOSE j \in 1..Len(elems) :
                     /\ ElemStart(elems, j) <= o
                     /\ o < ElemStart(elems, j) + 2 * Len(ElemBytes(elems[j], j))
             e == ElemStart(elems, k)
         IN  IF o < e + 2 THEN "iei"
             ELSE IF o < e + 4 THEN "iedl"
             ELSE IF IsConcatKind(elems[k]) THEN "concat data"
             ELSE "other data"

\* the user data that s describes: header and text, whole, cut after s.at
\* characters, or with the character at s.at replaced by "Z"
BuildUd(s) ==
    LET whole == HexOfBytes(<<Udhl(s.elems)>> \o ElemsBytes(s.elems) \o s.text) IN
    IF s.mut = "cut" THEN SubSeq(whole, 1, s.at)
    ELSE IF s.mut = "bad" THEN [whole EXCEPT ![s.at] = 90]
    ELSE whole

\* sequences over S of length 0..n
RECURSIVE SeqsUpTo(_, _)
SeqsUpTo(S, n) ==
    IF n = 0 THEN {<< >>}
    ELSE LET shorter == SeqsUpTo(S, n - 1) IN
         shorter \cup {Append(q, x) : q \in {r \in shorter : Len(r) = n - 1}, x \in S}

\* the well-formed user data: up to MaxElems elements, then the text octet
\* 41 or nothing
WholeUds ==
    [elems : SeqsUpTo(ElemKinds, MaxElems), text : {<< >>, <<65>>},
     mut : {"none"}, at : {0}]

\* a cut leaves no text behind it; a bad character stands in the header, and
\* it is tried on the headers without text
DamagedUd(s) ==
    IF s.text # << >> THEN {s}
    ELSE {s} \cup {[s EXCEPT !.mut = "cut", !.at = k] :
                     k \in 0..(UdhHexLen(s.elems) - 1)}
             \cup {[s EXCEPT !.mut = "bad", !.at = k] :
                     k \in 1..UdhHexLen(s.elems)}

UdChoices == UNION {DamagedUd(s) : s \in WholeUds}

ParseUdh ==
    /\ udh = NotCalled
    /\ udh' = Called(parse_udh(ud_hex))
    /\ UNCHANGED <<clock, udhSpec, ud_hex, pduVars, respVars, reasmVars,
                 codecVars, syncVars>>

InitUdh ==
    /\ clock = 0
    /\ udhSpec \in UdChoices
    /\ ud_hex = BuildUd(udhSpec)
    /\ udh = NotCalled
    /\ pduSpec = Idle /\ pdu = Idle /\ first = Idle /\ second = Idle
    /\ respSpec = Idle /\ response = Idle /\ listed = Idle /\ read = Idle
    /\ messages = Idle /\ batch = Idle /\ groups = Idle /\ out = Idle
    /\ pending = Idle
    /\ CodecIdle /\ SyncIdle

NextUdh == ParseUdh

SpecUdh == InitUdh /\ [][NextUdh]_vars

---------------------------------------------------------------------------
(* Claims on the UDH parser                                                *)

\* s misses, or has a non-hex character in, its UDHL, an IEI or an IEDL, or
\* ends inside the data of a concatenation element
UdhMalformed(s) ==
    \/ s.mut = "bad" /\ FieldAt(s.elems, s.at - 1) \in {"udhl", "iei", "iedl"}
    \/ s.mut = "cut"
       /\ FieldAt(s.elems, s.at) \in {"udhl", "iei", "iedl", "concat data"}

\* C8: On truncated or malformed input parse_udh returns exactly the default
\* metadata (0, 1, 1) and consumed length 0; nothing parsed before the
\* failure shows in the result.
C8_DefaultOnMalformed ==
    (udh # NotCalled /\ UdhMalformed(udhSpec))
    => udh.value = [info |-> DefaultInfo, len |-> 0]

\* the positions of the concatenation elements of a header
ConcatAt(elems) == {k \in 1..Len(elems) : IsConcatKind(elems[k])}

\* C9: For a well-formed header parse_udh consumes exactly 2 + UDHL*2 hex
\* characters, skipping every element it does not know by its declared
\* length, and returns the (ref, total, seq) of a concatenation element of
\* the header wherever that stands (the defaults when there is none).
C9_WellFormedUdh ==
    (udh # NotCalled /\ udhSpec.mut = "none")
    => /\ udh.value.len = 2 + Udhl(udhSpec.elems) * 2
       /\ IF ConcatAt(udhSpec.elems) = {}
          THEN udh.value.info = DefaultInfo
          ELSE \E k \in ConcatAt(udhSpec.elems) :
                  udh.value.info = ElemInfo(udhSpec.elems[k], k)

\* C9 witness: a 16-bit-reference element between two unknown elements has
\* been parsed
C9_Witness ==
    /\ udh # NotCalled
    /\ udhSpec.mut = "none"
    /\ udhSpec.elems = <<"u2", "c16", "u0">>
    /\ udh.value.info.concat_ref = 258
    /\ udh.value.len = 26

---------------------------------------------------------------------------
(* The state machine of a caller that polls the modem's store and hands    *)
(* each poll's decoded records to reassemble_concatenated                  *)

\* how many messages the store holds at most
MaxBatch == 3

\* the senders and concatenation references of the messages: "+1" with the
\* references 7 and 8, "2" with the reference 7
Keys == {<<<<43, 49>>, 7>>, <<<<50>>, 7>>, <<<<43, 49>>, 8>>}

\* (concat_total, concat_seq) of a message of "+1": standalone, or a part of
\* a message of two or three parts (sequence numbers past the total included)
Shapes == {<<1, 1>>} \cup ({2, 3} \X {1, 2, 3})

\* the messages that arrive: "2" sends standalone messages and the parts of
\* a message of two parts, and "+1" sends the first part of a second message,
\* reference 8
Arrivals ==
    ({<<<<43, 49>>, 7>>} \X Shapes)
    \cup ({<<<<50>>, 7>>} \X {<<1, 1>>, <<2, 1>>, <<2, 2>>})
    \cup {<<<<<<43, 49>>, 8>>, <<2, 1>>>>}

\* the decoded record of the message in slot i: time stamp "T<i>" and
\* encoding by slot, body by key, sequence number and slot ("a<seq><i>" for
\* "+1" with reference 7, "b<seq><i>" for "2", "c<seq><i>" for "+1" with
\* reference 8), so that no two messages of a store have the same body
Msg(i, key, shape) ==
    DecodedSMS(i, key[1], <<84, 48 + i>>,
               <<(IF key[1] = <<50>> THEN 98 ELSE IF key[2] = 8 THEN 99 ELSE 97),
                 48 + shape[2], 48 + i>>,
               IF i % 2 = 1 THEN "gsm7" ELSE "ucs2",
               [concat_ref |-> key[2], concat_total |-> shape[1],
                concat_seq |-> shape[2]])

\* the keys whose group is short of its declared total
IncompleteKeys(gs) ==
    {gs[g].key : g \in {h \in 1..Len(gs) :
                          Len(gs[h].parts) < gs[h].parts[1].concat_total}}

\* a message arrives and takes the next slot of the store
Receive ==
    /\ Len(batch) < MaxBatch
    /\ \E a \in Arrivals :
          batch' = Append(batch, Msg(Len(batch) + 1, a[1], a[2]))
    /\ UNCHANGED <<clock, messages, groups, out, pending, pduVars, respVars, udhVars,
                 codecVars, syncVars>>

\* the store as it is goes through reassemble_concatenated
Reassemble ==
    /\ out = NotCalled \/ messages # batch
    /\ LET r == ReassembleCall(batch, groups) IN
          /\ messages' = r.messages
          /\ groups' = r.groups
          /\ out' = Called(r.out)
    /\ pending' = IncompleteKeys(groups)
    /\ UNCHANGED <<clock, batch, pduVars, respVars, udhVars,
                 codecVars, syncVars>>

InitReasm ==
    /\ clock = 0
    /\ batch = << >>
    /\ messages = << >>
    /\ groups = << >>
    /\ out = NotCalled
    /\ pending = {}
    /\ pduSpec = Idle /\ pdu = Idle /\ first = Idle /\ second = Idle
    /\ respSpec = Idle /\ response = Idle /\ listed = Idle /\ read = Idle
    /\ udhSpec = Idle /\ ud_hex = Idle /\ udh = Idle
    /\ CodecIdle /\ SyncIdle

NextReasm == Receive \/ Reassemble

SpecReasm == InitReasm /\ [][NextReasm]_vars

---------------------------------------------------------------------------
(* Claims on the reassembler                                               *)

\* the positions in msgs of the fragments of key
FragsOf(msgs, key) ==
    {i \in 1..Len(msgs) :
        msgs[i].concat_total > 1 /\ <<msgs[i].phone, msgs[i].concat_ref>> = key}

\* the fragments of key are n parts that all declare n, numbered 1..n
IsComplete(msgs, key, n) ==
    /\ n > 1
    /\ Cardinality(FragsOf(msgs, key)) = n
    /\ \A i \in FragsOf(msgs, key) : msgs[i].concat_total = n
    /\ {msgs[i].concat_seq : i \in FragsOf(msgs, key)} = 1..n

\* the fragment of key that stands before every other in (concat_seq,
\* position) order among those at the positions F
Lowest(msgs, F) ==
    CHOOSE i \in F : \A j \in F :
        \/ msgs[i].concat_seq < msgs[j].concat_seq
        \/ (msgs[i].concat_seq = msgs[j].concat_seq /\ i <= j)

RECURSIVE BodiesInOrder(_, _)
\* the bodies of the fragments at the positions F, by ascending concat_seq
\* (by position among equals), joined without a separator
BodiesInOrder(msgs, F) ==
    IF F = {} THEN << >>
    ELSE msgs[Lowest(msgs, F)].body \o BodiesInOrder(msgs, F \ {Lowest(msgs, F)})

\* the records of res made from the fragments at the positions F of the
\* input: a record keeps the slot index of one of its parts, and no two
\* messages share a slot
RecordsFor(res, F) == {j \in 1..Len(res) : res[j].index \in F}

\* C3: Reassembly completeness.  Fragments that share (phone, concat_ref),
\* declare concat_total = n and carry the distinct concat_seq 1..n give
\* exactly one record, whose body is their bodies joined in ascending
\* concat_seq order without a separator, in whatever order they are listed.
C3_Completeness ==
    out # NotCalled =>
      \A key \in Keys, n \in 2..MaxBatch :
        IsComplete(messages, key, n) =>
          LET F == FragsOf(messages, key)
              R == RecordsFor(out.value, F)
          IN  /\ Cardinality(R) = 1
              /\ \A j \in R : out.value[j].body = BodiesInOrder(messages, F)

\* C3 witness: three parts listed in the order 3, 1, 2 came out as
\* "a12a23a31"
C3_Witness ==
    /\ out # NotCalled
    /\ Len(messages) = 3
    /\ IsComplete(messages, <<<<43, 49>>, 7>>, 3)
    /\ <<messages[1].concat_seq, messages[2].concat_seq, messages[3].concat_seq>>
         = <<3, 1, 2>>
    /\ Len(out.value) = 1
    /\ out.value[1].body = <<97, 49, 50, 97, 50, 51, 97, 51, 49>>

\* C4: Reassembly incompleteness.  A group of k parts with k less than the
\* concat_total of its lowest-sequence part gives exactly one record, whose
\* body is the part bodies joined, followed by the marker that states
\* k/concat_total.
C4_Incompleteness ==
    out # NotCalled =>
      \A key \in Keys :
        LET F == FragsOf(messages, key)
            k == Cardinality(F)
            total == messages[Lowest(messages, F)].concat_total
            R == RecordsFor(out.value, F)
        IN  (F # {} /\ k < total) =>
              /\ Cardinality(R) = 1
              /\ \A j \in R :
                   out.value[j].body =
                     BodiesInOrder(messages, F)
                     \o <<10, 10, 91, 9888, 65039, 32, 77, 101, 115, 115, 97,
                          103, 101, 32, 105, 110, 99, 111, 109, 112, 108, 101,
                          116, 101, 58, 32>>
                     \o Dec(k) \o <<47>> \o Dec(total)
                     \o <<32, 112, 97, 114, 116, 115, 32, 114, 101, 99, 101,
                          105, 118, 101, 100, 93>>

\* C4 witness: parts 3 and 1 of three came out as one record whose body
\* ends "...: 2/3 parts received]"
C4_Witness ==
    /\ out # NotCalled
    /\ Len(messages) = 2
    /\ FragsOf(messages, <<<<43, 49>>, 7>>) = {1, 2}
    /\ <<messages[1].concat_seq, messages[2].concat_seq>> = <<3, 1>>
    /\ messages[2].concat_total = 3
    /\ Len(out.value) = 1
    /\ SubSeq(out.value[1].body, 1, 6) = <<97, 49, 50, 97, 51, 49>>
    /\ SubSeq(out.value[1].body, 33, 35) = <<50, 47, 51>>

\* C10: No cross-call memory.  After any earlier calls, what
\* reassemble_concatenated returns for a list is what it returns for that
\* list when nothing was called before, so a list with some parts of a
\* message is reported incomplete and a later list with all its parts
\* complete; the list handed in is left as it was.
C10_NoCrossCallMemory ==
    out # NotCalled =>
      /\ out.value = reassemble_concatenated(messages)
      /\ messages = SubSeq(batch, 1, Len(messages))
      /\ \A key \in Keys :
           IsComplete(messages, key, Cardinality(FragsOf(messages, key))) =>
             \A j \in RecordsFor(out.value, FragsOf(messages, key)) :
               out.value[j].body = BodiesInOrder(messages, FragsOf(messages, key))

\* C10 witness: the call before this one reported the message of "+1"
\* incomplete, and this one, given both its parts, reports it complete
C10_Witness ==
    /\ out # NotCalled
    /\ <<<<43, 49>>, 7>> \in pending
    /\ IsComplete(messages, <<<<43, 49>>, 7>>, 2)
    /\ \E j \in 1..Len(out.value) :
          /\ Len(out.value[j].body) = 6
          /\ SubSeq(out.value[j].body, 1, 2) = <<97, 49>>
          /\ SubSeq(out.value[j].body, 4, 5) = <<97, 50>>

\* C11: Reassembly metadata.  The record emitted for a fragment group carries
\* the index, phone, timestamp and encoding of the group's lowest-concat_seq
\* part, and concat_ref = 0, concat_total = 1, concat_seq = 1, in whatever
\* order the parts are listed.
C11_GroupMetadata ==
    out # NotCalled =>
      \A key \in Keys :
        LET F == FragsOf(messages, key)
            low == messages[Lowest(messages, F)]
            R == {j \in 1..Len(out.value) :
                    /\ out.value[j].index = low.index
                    /\ out.value[j].phone = low.phone
                    /\ out.value[j].timestamp = low.timestamp
                    /\ out.value[j].encoding = low.encoding
                    /\ out.value[j].concat_ref = 0
                    /\ out.value[j].concat_total = 1
                    /\ out.value[j].concat_seq = 1}
        IN  F # {} =>
              /\ Cardinality(R) = 1
              /\ RecordsFor(out.value, F) = R

\* C11 witness: part 2 in slot 1 and part 1 in slot 2 came out as one record
\* with the slot, time stamp "T2" and encoding of part 1
C11_Witness ==
    /\ out # NotCalled
    /\ Len(messages) = 2
    /\ FragsOf(messages, <<<<43, 49>>, 7>>) = {1, 2}
    /\ <<messages[1].concat_seq, messages[2].concat_seq>> = <<2, 1>>
    /\ Len(out.value) = 1
    /\ out.value[1].index = 2
    /\ out.value[1].timestamp = <<84, 50>>
    /\ out.value[1].encoding = "ucs2"
    /\ out.value[1].concat_total = 1

\* body is found inside text
Contains(text, body) ==
    \E a \in 1..(Len(text) - Len(body) + 1) :
        SubSeq(text, a, a + Len(body) - 1) = body

\* the positions in msgs of the standalone messages
StandaloneIn(msgs) == {i \in 1..Len(msgs) : msgs[i].concat_total = 1}

\* C12: Standalone records are never grouped.  Each input record with
\* concat_total = 1 is emitted unchanged as an output record of its own, also
\* when other standalone records or a fragment group have its phone and
\* concat_ref, and its body is part of no other output record.
C12_StandaloneKept ==
    out # NotCalled =>
      \A i \in StandaloneIn(messages) :
        /\ Cardinality({j \in 1..Len(out.value) : out.value[j] = messages[i]}) = 1
        /\ \A j \in 1..Len(out.value) :
             out.value[j] # messages[i] =>
               ~ Contains(out.value[j].body, messages[i].body)

\* C12 witness: a standalone message of "+1" with reference 7 between two
\* parts of the message of "+1" with reference 7 came out as it went in, and
\* the two parts as one record
C12_Witness ==
    /\ out # NotCalled
    /\ Len(messages) = 3
    /\ StandaloneIn(messages) = {2}
    /\ FragsOf(messages, <<<<43, 49>>, 7>>) = {1, 3}
    /\ Len(out.value) = 2
    /\ out.value[1] = messages[2]
    /\ out.value[1].concat_ref = 7

\* the output records that contain the body of the input message at i
LandsIn(res, msgs, i) == {j \in 1..Len(res) : Contains(res[j].body, msgs[i].body)}

\* C13: Partition.  The number of output records is the number of standalone
\* inputs plus the number of distinct (phone, concat_ref) among the
\* fragments; two fragments are in the same output record if and only if
\* their phone and their concat_ref are equal; every input body is in
\* exactly one output record.
C13_Partition ==
    out # NotCalled =>
      LET frags == {i \in 1..Len(messages) : messages[i].concat_total > 1} IN
      /\ Len(out.value)
           = Cardinality((1..Len(messages)) \ frags)
             + Cardinality({<<messages[i].phone, messages[i].concat_ref>> :
                              i \in frags})
      /\ \A i \in 1..Len(messages) :
           Cardinality(LandsIn(out.value, messages, i)) = 1
      /\ \A i1, i2 \in frags :
           (LandsIn(out.value, messages, i1) = LandsIn(out.value, messages, i2))
           <=> (/\ messages[i1].phone = messages[i2].phone
                /\ messages[i1].concat_ref = messages[i2].concat_ref)

\* C13 witness: first parts from "+1" with reference 7, from "2" with
\* reference 7 and from "+1" with reference 8 came out as three records
C13_Witness ==
    /\ out # NotCalled
    /\ Len(messages) = 3
    /\ {<<messages[i].phone, messages[i].concat_ref>> : i \in 1..3} = Keys
    /\ \A i \in 1..3 : messages[i].concat_total = 2
    /\ Len(out.value) = 3

---------------------------------------------------------------------------
(* Claims on the response parser's pairing of markers and PDU lines        *)

\* the records of the entries of r, as the decoder gives them, in the order
\* of the listing and under the slots of their markers
ListedRecords(r, now) ==
    LET r1 == <<RecordOf(r.fst, SlotOfFirst(r), now)>>
        r2 == IF r.snd.mut = "absent" THEN << >>
              ELSE <<RecordOf(r.snd, SlotOfSecond(r), now)>>
    IN  IF r.swapped THEN r2 \o r1 ELSE r1 \o r2

\* C14: Response parser pairing.  parse_cmgl_response passes over every line
\* that is no matching marker and every marker whose next line is blank,
\* absent, another marker or the terminator, without taking that next line
\* with it, so the records returned are those of the listed PDUs, each
\* under the slot of the marker right before its line: a standalone PDU's
\* record carries that slot.
C14_Pairing ==
    (/\ respSpec.kind = "CMGL"
     /\ listed # NotCalled
     /\ respSpec.snd.mut \in {"none", "absent"})
    => /\ listed.value = reassemble_concatenated(ListedRecords(respSpec, clock))
       /\ respSpec.fst.udh = << >> =>
            \E j \in 1..Len(listed.value) :
               listed.value[j] = RecordOf(respSpec.fst, SlotOfFirst(respSpec), clock)
       /\ (respSpec.snd.mut = "none" /\ respSpec.snd.udh = << >>) =>
            \E j \in 1..Len(listed.value) :
               listed.value[j] = RecordOf(respSpec.snd, SlotOfSecond(respSpec), clock)

\* C14 witness: a marker of slot 9 stood right before the marker of slot 2,
\* and the records of slot 1 and slot 2 were returned
C14_Witness ==
    /\ respSpec.kind = "CMGL"
    /\ listed # NotCalled
    /\ respSpec.skip = "marker"
    /\ ~respSpec.swapped
    /\ respSpec.snd.mut = "none"
    /\ respSpec.fst.udh = << >> /\ respSpec.snd.udh = << >>
    /\ Len(listed.value) = 2
    /\ listed.value[1].index = 1
    /\ listed.value[2].index = 2
    /\ listed.value[2].body = <<65>>

---------------------------------------------------------------------------
(* The state machine of one caller of a codec primitive                    *)

\* how many UCS-2 code units, and how many pairs of digits, an input holds
\* at most
MaxUnits == 3

\* UCS-2 code units as the modem writes them, with the value of each: NUL,
\* the byte-order mark, the ends of the surrogate range and their
\* neighbours, "A", U+FFFE, a unit int() rejects ("00ZZ") and "B" written
\* with a space inside ("00 42")
Units ==
    {[hex |-> <<48, 48, 48, 48>>, code |-> 0],
     [hex |-> <<70, 69, 70, 70>>, code |-> 65279],
     [hex |-> <<68, 56, 48, 48>>, code |-> 55296],
     [hex |-> <<68, 70, 70, 70>>, code |-> 57343],
     [hex |-> <<68, 55, 70, 70>>, code |-> 55295],
     [hex |-> <<69, 48, 48, 48>>, code |-> 57344],
     [hex |-> <<48, 48, 52, 49>>, code |-> 65],
     [hex |-> <<70, 70, 70, 69>>, code |-> 65534],
     [hex |-> <<48, 48, 90, 90>>, code |-> ValueError],
     [hex |-> <<48, 48, 32, 52, 50>>, code |-> 66]}

\* the calls of decode_ucs2_hex: up to MaxUnits units, then nothing or the
\* three characters "004" of a unit cut short
Ucs2Calls ==
    {[fn |-> "decode_ucs2_hex", units |-> u, tail |-> tl,
      hex_string |-> Concat([k \in 1..Len(u) |-> u[k].hex]) \o tl] :
        u \in SeqsUpTo(Units, MaxUnits), tl \in {<< >>, <<48, 48, 52>>}}

\* pairs of swapped digits: "21", "09", "55"
DigitPairs == {<<50, 49>>, <<48, 57>>, <<53, 53>>}

\* the calls of swap_nibbles: up to MaxUnits pairs of swapped digits, the
\* last digit with the fill nibble ("F5") or not
SwapCalls ==
    {[fn |-> "swap_nibbles", pairs |-> q, fill |-> f,
      s |-> Concat(q) \o (IF f THEN <<70, 53>> ELSE << >>)] :
        q \in SeqsUpTo(DigitPairs, MaxUnits), f \in BOOLEAN}

\* how many digits a phone number holds at most
MaxDigits == 4

\* the digits of a number as semi-octets: a fill nibble F behind an odd
\* count, then every pair swapped
SemiOctets(digits) ==
    LET padded == IF Len(digits) % 2 = 1 THEN Append(digits, 70) ELSE digits IN
    [i \in 1..Len(padded) |-> IF i % 2 = 1 THEN padded[i + 1] ELSE padded[i - 1]]

\* the calls of decode_pdu_phone: the address of 1..MaxDigits digits out of
\* "1", "9", "0", of type 0x81 (unknown), 0x91 (international) or 0xA1
\* (national), with the protocol identifier and the coding scheme "0000"
\* behind it
PhoneCalls ==
    {[fn |-> "decode_pdu_phone", type_byte |-> ty, digits |-> dg,
      pdu |-> HexOfBytes(<<ty>>) \o SemiOctets(dg) \o <<48, 48, 48, 48>>,
      length |-> Len(dg)] :
        ty \in {129, 145, 161},
        dg \in SeqsUpTo({49, 57, 48}, MaxDigits) \ {<< >>}}

\* the calls of decode_gsm7_packed: up to MaxUnits septets out of the escape
\* 0x1B, "A", "(" and "e", packed, with their number as num_chars
Gsm7Calls ==
    {[fn |-> "decode_gsm7_packed", septets |-> sp,
      packed_hex |-> HexOfBytes(Pack7(sp, 0)), num_chars |-> Len(sp)] :
        sp \in SeqsUpTo({27, 65, 40, 101}, MaxUnits)}

\* how many packed octets decode_gsm7_packed is given at most
MaxBytes == 8

\* the j-th octet of a run of octets: all 00, all FF, AA and 55 in turn, or
\* 1B, 7F, E3, ... (steps of 100 from 27)
OctetOf(pattern, j) ==
    CASE pattern = "zeros" -> 0
      [] pattern = "ones" -> 255
      [] pattern = "turns" -> (IF j % 2 = 1 THEN 170 ELSE 85)
      [] pattern = "steps" -> (27 + 100 * (j - 1)) % 256

\* the calls of decode_gsm7_packed on 0..MaxBytes octets, without a target
\* count (0) or with one: 1, the number of octets, two more than that
Gsm7ByteCalls ==
    UNION {{[fn |-> "decode_gsm7_packed", pattern |-> pt,
             bytes |-> [j \in 1..n |-> OctetOf(pt, j)],
             packed_hex |-> HexOfBytes([j \in 1..n |-> OctetOf(pt, j)]),
             num_chars |-> c] :
               pt \in {"zeros", "ones", "turns", "steps"},
               c \in {0, 1, n, n + 2}} : n \in 0..MaxBytes}

CodecCalls ==
    Ucs2Calls \cup SwapCalls \cup PhoneCalls \cup Gsm7Calls \cup Gsm7ByteCalls

DecodePhone ==
    /\ call.fn = "decode_pdu_phone"
    /\ ret = NotCalled
    /\ ret' = Called(decode_pdu_phone(call.pdu, call.length))
    /\ UNCHANGED <<clock, call, again, pduVars, respVars, udhVars, reasmVars,
                   syncVars>>

DecodeGsm7 ==
    /\ call.fn = "decode_gsm7_packed"
    /\ ret = NotCalled
    /\ ret' = Called(decode_gsm7_packed(call.packed_hex, call.num_chars))
    /\ UNCHANGED <<clock, call, again, pduVars, respVars, udhVars, reasmVars,
                   syncVars>>

DecodeUcs2 ==
    /\ call.fn = "decode_ucs2_hex"
    /\ ret = NotCalled
    /\ ret' = Called(decode_ucs2_hex(call.hex_string))
    /\ UNCHANGED <<clock, call, again, pduVars, respVars, udhVars, reasmVars,
                   syncVars>>

SwapNibbles ==
    /\ call.fn = "swap_nibbles"
    /\ ret = NotCalled
    /\ ret' = Called(swap_nibbles(call.s))
    /\ UNCHANGED <<clock, call, again, pduVars, respVars, udhVars, reasmVars,
                   syncVars>>

\* swap_nibbles on what swap_nibbles returned
SwapAgain ==
    /\ call.fn = "swap_nibbles"
    /\ ret # NotCalled
    /\ again = NotCalled
    /\ again' = Called(swap_nibbles(ret.value))
    /\ UNCHANGED <<clock, call, ret, pduVars, respVars, udhVars, reasmVars,
                   syncVars>>

InitCodec ==
    /\ clock = 0
    /\ call \in CodecCalls
    /\ ret = NotCalled
    /\ again = NotCalled
    /\ pduSpec = Idle /\ pdu = Idle /\ first = Idle /\ second = Idle
    /\ respSpec = Idle /\ response = Idle /\ listed = Idle /\ read = Idle
    /\ udhSpec = Idle /\ ud_hex = Idle /\ udh = Idle
    /\ messages = Idle /\ batch = Idle /\ groups = Idle /\ out = Idle
    /\ pending = Idle
    /\ SyncIdle

NextCodec ==
    DecodeUcs2 \/ SwapNibbles \/ SwapAgain \/ DecodePhone \/ DecodeGsm7

SpecCodec == InitCodec /\ [][NextCodec]_vars

---------------------------------------------------------------------------
(* Claims on the codec primitives                                          *)

\* the values decode_ucs2_hex must leave out
IsFiltered(c) == c = 0 \/ c = 65279 \/ (c >= 55296 /\ c <= 57343)

\* C15: UCS-2 filtering.  decode_ucs2_hex takes its input four hex
\* characters at a time and returns, for every input, a text without
\* U+0000, without U+FEFF and without a value in U+D800..U+DFFF, in which
\* every other 16-bit value of the input stands, in the order of the input.
C15_Ucs2Filtering ==
    (call # Idle /\ call.fn = "decode_ucs2_hex" /\ ret # NotCalled)
    => /\ \A i \in 1..Len(ret.value) : ~IsFiltered(ret.value[i])
       /\ ret.value =
            SelectSeq([k \in 1..Len(call.units) |-> call.units[k].code],
                      LAMBDA c : c # ValueError /\ ~IsFiltered(c))

\* C15 witness: byte-order mark, "A", a high surrogate and half a unit gave
\* "A"
C15_Witness ==
    /\ call # Idle /\ call.fn = "decode_ucs2_hex" /\ ret # NotCalled
    /\ Len(call.units) = 3
    /\ <<call.units[1].code, call.units[2].code, call.units[3].code>>
         = <<65279, 65, 55296>>
    /\ call.tail # << >>
    /\ ret.value = <<65>>

\* C18: Nibble-swap round trip.  For every even-length string x of swapped
\* digits swap_nibbles(swap_nibbles(x)) is x, and x without the F when the
\* last pair of x carries the fill nibble F.
C18_SwapRoundTrip ==
    (call # Idle /\ call.fn = "swap_nibbles" /\ again # NotCalled)
    => again.value =
         Concat(call.pairs) \o (IF call.fill THEN <<53>> ELSE << >>)

\* C18 witness: "2109F5" went to "12905" and back to "21095"
C18_Witness ==
    /\ call # Idle /\ call.fn = "swap_nibbles" /\ again # NotCalled
    /\ call.s = <<50, 49, 48, 57, 70, 53>>
    /\ ret.value = <<49, 50, 57, 48, 53>>
    /\ again.value = <<50, 49, 48, 57, 53>>

\* C16: Phone decode.  For a numeric address with declared digit count L
\* decode_pdu_phone returns the L digits of the number field, nibbles
\* swapped back and the fill nibble of an odd L dropped, with "+" in front
\* exactly when the type byte is 0x91 (international) and none for 0x81.
C16_PhoneDecode ==
    (call # Idle /\ call.fn = "decode_pdu_phone" /\ ret # NotCalled)
    => /\ ~ret.value.err
       /\ ret.value.phone =
            (IF call.type_byte = 145 THEN <<43>> ELSE << >>) \o call.digits

\* C16 witness: 91 91 F0 with L = 3 gave "+190"
C16_Witness ==
    /\ call # Idle /\ call.fn = "decode_pdu_phone" /\ ret # NotCalled
    /\ call.type_byte = 145
    /\ SubSeq(call.pdu, 1, 6) = <<57, 49, 57, 49, 70, 48>>
    /\ call.length = 3
    /\ ret.value.phone = <<43, 49, 57, 48>>

\* C19: GSM7 escape handling.  decode_gsm7_packed starts no escape sequence
\* at a septet 0x1B: that septet decodes on its own as the character with
\* code 0x1B, and the septet behind it through the default alphabet table
\* ("A", "(" and "e" for 0x41, 0x28 and 0x65).
C19_EscapeRaw ==
    (/\ call # Idle /\ call.fn = "decode_gsm7_packed"
     /\ "septets" \in DOMAIN call /\ ret # NotCalled)
    => ret.value = call.septets

\* C17: Consumed-length contract.  For national, international and
\* alphanumeric addresses and every declared digit count L, decode_pdu_phone
\* reports 2 + 2*ceil(L/2) hex characters consumed, and
\* decode_sms_deliver_pdu moves on by that many, so that coding scheme, time
\* stamp ("2026-11-02T17:15:28"), length and user data are read from behind
\* the address for even and odd L alike.
C17_ConsumedLength ==
    (pduSpec # Idle /\ first # NotCalled /\ pduSpec.mut = "none")
    => LET L == pduSpec.oa[1]
           r == decode_pdu_phone(Slice(pdu, OaStart(pduSpec) + 2, Len(pdu)), L)
       IN  /\ ~r.err
           /\ r.consumed = 2 + 2 * ((L + 1) \div 2)
           /\ r.consumed = 2 * (Len(pduSpec.oa) - 1)
           /\ first.value # None
           /\ first.value.encoding = (IF pduSpec.ucs2 THEN "ucs2" ELSE "gsm7")
           /\ first.value.timestamp =
                <<50, 48, 50, 54, 45, 49, 49, 45, 48, 50, 84, 49, 55, 58, 49,
                  53, 58, 50, 56>>
           /\ pduSpec.udh = << >> => first.value.body = pduSpec.text

\* C17 witness: a message from the alphanumeric address "Hello" (L = 9) has
\* been decoded with its text "Hi"
C17_Witness ==
    /\ pduSpec # Idle /\ first # NotCalled /\ pduSpec.mut = "none"
    /\ pduSpec.oa[1] = 9 /\ pduSpec.oa[2] = 208
    /\ first.value # None
    /\ first.value.phone = <<72, 101, 108, 108, 111>>
    /\ first.value.body = <<72, 105>>

---------------------------------------------------------------------------
(* api/routes.py: sync_inbox, run by the requests of several clients at    *)
(* once against one database and one modem                                 *)

\* the requests that run sync_inbox, each again and again
MaxRequests == 2

\* the slots of the modem's store
MaxSlots == 2

Requests == 1..MaxRequests

\* rid = get_active_router_id(db)
Rid == 1

\* the sender and concatenation reference of the parts the modem receives
SyncKey == <<<<43, 49>>, 7>>

\* (concat_total, concat_seq) of a message the modem receives: standalone,
\* or a part of a message of two parts
SyncShapes == {<<1, 1>>, <<2, 1>>, <<2, 2>>}

RECURSIVE StoredMessages(_)
\* what the loop of parse_cmgl_response collects from the AT+CMGL=4 listing:
\* the decoded record of every stored message, in slot order, its index the
\* slot number
StoredMessages(stored) ==
    IF stored = {} THEN << >>
    ELSE LET lowest == CHOOSE m \in stored : \A o \in stored : m.index <= o.index
         IN  <<lowest>> \o StoredMessages(stored \ {lowest})

\* client.get_sms_inbox: one SMSMessage per record parse_cmgl_response
\* returns (the stored messages after reassemble_concatenated), its index
\* the record's index as a string
InboxList(stored) ==
    LET decoded_messages == reassemble_concatenated(StoredMessages(stored)) IN
    [k \in 1..Len(decoded_messages) |->
        [index |-> Dec(decoded_messages[k].index),
         phone |-> decoded_messages[k].phone,
         timestamp |-> decoded_messages[k].timestamp,
         body |-> decoded_messages[k].body,
         type |-> "received"]]

\* the modem_index values of the rows of router rid that have one
ExistingIndices(rows, rid) ==
    {rows[i].modem_index :
        i \in {j \in 1..Len(rows) :
                 rows[j].router_id = rid /\ rows[j].modem_index # << >>}}

\* the messages of the list the loop does not pass over
NewMessages(list, existing) ==
    SelectSeq(list, LAMBDA sms : ~(sms.index # << >> /\ sms.index \in existing))

\* Message(router_id=rid, direction="in", ..., modem_index=sms.index or "")
MessageRow(rid, sms) ==
    [router_id |-> rid, direction |-> "in", phone |-> sms.phone,
     body |-> sms.body, modem_index |-> sms.index]

\* the modem stores a message that came in, in a free slot
Arrive ==
    /\ \E s \in (1..MaxSlots) \ {m.index : m \in inbox}, shape \in SyncShapes :
          inbox' = inbox \cup {Msg(s, SyncKey, shape)}
    /\ UNCHANGED <<clock, db, pc, sms_list, existing_indices, new_count,
                   synced, before, pduVars, respVars, udhVars, reasmVars,
                   codecVars>>

\* sms_list = client.get_sms_inbox(r.lte_interface)
Fetch(p) ==
    /\ pc[p] = "start"
    /\ sms_list' = [sms_list EXCEPT ![p] = InboxList(inbox)]
    /\ before' = [before EXCEPT ![p] = synced]
    /\ pc' = [pc EXCEPT ![p] = "fetched"]
    /\ UNCHANGED <<clock, inbox, db, existing_indices, new_count, synced,
                   pduVars, respVars, udhVars, reasmVars, codecVars>>

\* existing_indices = set(m.modem_index for m in db.query(Message)...)
Query(p) ==
    /\ pc[p] = "fetched"
    /\ existing_indices' =
         [existing_indices EXCEPT ![p] = ExistingIndices(db, Rid)]
    /\ pc' = [pc EXCEPT ![p] = "queried"]
    /\ UNCHANGED <<clock, inbox, db, sms_list, new_count, synced, before,
                   pduVars, respVars, udhVars, reasmVars, codecVars>>

\* the for loop over sms_list with its db.add calls, and db.commit()
Commit(p) ==
    /\ pc[p] = "queried"
    /\ LET new == NewMessages(sms_list[p], existing_indices[p]) IN
          /\ db' = db \o [k \in 1..Len(new) |-> MessageRow(Rid, new[k])]
          /\ new_count' = [new_count EXCEPT ![p] = Len(new)]
    /\ synced' = Called(sms_list[p])
    /\ pc' = [pc EXCEPT ![p] = "committed"]
    /\ UNCHANGED <<clock, inbox, sms_list, existing_indices, before,
                   pduVars, respVars, udhVars, reasmVars, codecVars>>

\* return {"ok": True, "new_messages": new_count}; the client asks again
Return(p) ==
    /\ pc[p] = "committed"
    /\ pc' = [pc EXCEPT ![p] = "start"]
    /\ UNCHANGED <<clock, inbox, db, sms_list, existing_indices, new_count,
                   synced, before, pduVars, respVars, udhVars, reasmVars,
                   codecVars>>

InitSync ==
    /\ clock = 0
    /\ inbox = {}
    /\ db = << >>
    /\ pc = [p \in Requests |-> "start"]
    /\ sms_list = [p \in Requests |-> << >>]
    /\ existing_indices = [p \in Requests |-> {}]
    /\ new_count = [p \in Requests |-> 0]
    /\ synced = NotCalled
    /\ before = [p \in Requests |-> NotCalled]
    /\ pduSpec = Idle /\ pdu = Idle /\ first = Idle /\ second = Idle
    /\ respSpec = Idle /\ response = Idle /\ listed = Idle /\ read = Idle
    /\ udhSpec = Idle /\ ud_hex = Idle /\ udh = Idle
    /\ messages = Idle /\ batch = Idle /\ groups = Idle /\ out = Idle
    /\ pending = Idle
    /\ CodecIdle

NextSync ==
    \/ Arrive
    \/ \E p \in Requests : Fetch(p) \/ Query(p) \/ Commit(p) \/ Return(p)

SpecSync == InitSync /\ [][NextSync]_vars

\* C20: Sync deduplication.  After any sequence or interleaving of
\* sync_inbox calls for the active router the database holds no two inbound
\* messages of that router with the same non-empty modem_index, and a sync
\* that fetched the inbox as the sync before it had fetched it adds no
\* message.
C20_SyncDedup ==
    /\ \A i, j \in 1..Len(db) :
         (/\ i # j
          /\ db[i].router_id = Rid /\ db[j].router_id = Rid
          /\ db[i].direction = "in" /\ db[j].direction = "in"
          /\ db[i].modem_index # << >>)
         => db[i].modem_index # db[j].modem_index
    /\ \A p \in Requests :
         (pc[p] = "committed" /\ before[p] = Called(sms_list[p]))
         => new_count[p] = 0

---------------------------------------------------------------------------
(* Claims on the user data of the PDU decoder                              *)

\* C21: UCS-2 declared length.  For a UCS-2 PDU decode_sms_deliver_pdu
\* decodes the body from the first (UDL minus header octets) octets behind
\* the header: hex characters past the declared user data length never show
\* in the body.
C21_Ucs2DeclaredLength ==
    (/\ first # NotCalled
     /\ pduSpec.ucs2 /\ pduSpec.mut \in {"none", "extra"})
    => /\ first.value # None
       /\ first.value.body = pduSpec.text

\* the coding scheme octet d selects UCS-2: coding group 00 with alphabet 2,
\* or high nibble E
SelectsUcs2(d) == (d \div 64 = 0 /\ (d \div 4) % 4 = 2) \/ d \div 16 = 14

\* C23: DCS classification.  For every value 0..255 of the coding scheme
\* octet decode_sms_deliver_pdu decodes the user data as UCS-2 exactly when
\* the top two bits are 00 and bits 3..2 are 2, or the high nibble is E;
\* under every other value, the 8-bit data alphabet included, it decodes
\* GSM7 and reports encoding "gsm7".
C23_DcsClassification ==
    (first # NotCalled /\ pduSpec.mut = "dcs")
    => /\ first.value # None
       /\ first.value.encoding
            = (IF SelectsUcs2(pduSpec.at) THEN "ucs2" ELSE "gsm7")
       /\ (SelectsUcs2(pduSpec.at) <=> pduSpec.ucs2)
            => first.value.body = pduSpec.text

\* C23 witness: "Hi" in UCS-2 under the coding scheme E8 came out as "Hi",
\* encoding "ucs2"
C23_Witness ==
    /\ first # NotCalled /\ pduSpec.mut = "dcs"
    /\ pduSpec.at = 232 /\ pduSpec.ucs2
    /\ first.value # None
    /\ first.value.encoding = "ucs2"
    /\ first.value.body = <<72, 105>>

---------------------------------------------------------------------------
(* Claims on the GSM7 unpacker                                             *)

\* bit b of a run of octets read least significant bit first
BitOfOctets(bytes, b) == (bytes[b \div 8 + 1] \div 2 ^ (b % 8)) % 2

\* the k-th septet (from 0) of a run of octets: bits 7k..7k+6
SeptetOfOctets(bytes, k) ==
    BitOfOctets(bytes, 7 * k) + 2 * BitOfOctets(bytes, 7 * k + 1)
    + 4 * BitOfOctets(bytes, 7 * k + 2) + 8 * BitOfOctets(bytes, 7 * k + 3)
    + 16 * BitOfOctets(bytes, 7 * k + 4) + 32 * BitOfOctets(bytes, 7 * k + 5)
    + 64 * BitOfOctets(bytes, 7 * k + 6)

\* the GSM 03.38 default alphabet: the table of the source, which has a
\* blank where the alphabet has the escape 0x1B
DefaultAlphabet(septet) == IF septet = 27 THEN 27 ELSE gsm7_alphabet[septet + 1]

\* C22: GSM7 unpack.  For n packed octets and no target count
\* decode_gsm7_packed returns floor(8n/7) characters, the k-th the default
\* alphabet's entry for bits 7k..7k+6 of the octets read least significant
\* bit first (septet 0 gives "@"); with a target count c > 0 it returns the
\* first min(c, floor(8n/7)) of them.
C22_Gsm7Unpack ==
    (/\ call.fn = "decode_gsm7_packed" /\ "bytes" \in DOMAIN call
     /\ ret # NotCalled)
    => LET whole == (8 * Len(call.bytes)) \div 7
           m == IF call.num_chars > 0 THEN Min(call.num_chars, whole) ELSE whole
       IN  ret.value =
             [k \in 1..m |-> DefaultAlphabet(SeptetOfOctets(call.bytes, k - 1))]

---------------------------------------------------------------------------
(* Claims on repeated sequence numbers                                     *)

\* C24: reassemble_concatenated gives a group's body without the
\* incompleteness marker only if every sequence number 1..concat_total is
\* present among the group's parts; parts that repeat a concat_seq do not
\* make up for a missing one.
C24_MarkerUnlessAllPresent ==
    out # NotCalled =>
      \A key \in Keys :
        LET F == FragsOf(messages, key)
            total == messages[Lowest(messages, F)].concat_total
            R == RecordsFor(out.value, F)
        IN  F # {} =>
              \A j \in R :
                ~Contains(out.value[j].body, MarkerHead) =>
                  \A q \in 1..total : \E i \in F : messages[i].concat_seq = q

---------------------------------------------------------------------------
(* Claims on a message whose parts arrive between two polls                *)

\* C25: Across polls.  If a sync_inbox run stored a message of several
\* parts with the incompleteness marker, only some of its parts being on the
\* modem, then after a later sync_inbox run that found all its parts on the
\* modem the database holds the message with its complete body, without the
\* marker.  Here: request p has committed a run whose list held the complete
\* body, the run that committed last before p fetched had listed the message
\* with the marker, and the database holds it with the marker.
C25_CompletedAcrossPolls ==
    \A p \in Requests :
      LET stored == StoredMessages(inbox)
          whole == BodiesInOrder(stored, FragsOf(stored, SyncKey))
      IN  (/\ pc[p] = "committed"
           /\ IsComplete(stored, SyncKey, 2)
           /\ \E k \in 1..Len(sms_list[p]) : sms_list[p][k].body = whole
           /\ before[p] # NotCalled
           /\ \E k \in 1..Len(before[p].value) :
                /\ before[p].value[k].phone = SyncKey[1]
                /\ Contains(before[p].value[k].body, MarkerHead)
           /\ \E i \in 1..Len(db) :
                /\ db[i].phone = SyncKey[1]
                /\ Contains(db[i].body, MarkerHead))
          => \E i \in 1..Len(db) :
                db[i].phone = SyncKey[1] /\ db[i].body = whole

===========================================================================
